---- MODULE Spec2Model ----
(***************************************************************************)
(* Stock ledger of the inventory backend: the order routes                 *)
(* (routes/order.routes.js) and the purchase-order routes                  *)
(* (routes/purchaseorder.routes.js) acting on the product, order and       *)
(* purchase-order collections.                                             *)
(*                                                                         *)
(* Every handler is an async function.  The code between two awaits runs   *)
(* without interruption (one JavaScript thread); each awaited store call   *)
(* (findById, save, create, findByIdAndUpdate, findByIdAndDelete) is one   *)
(* atomic step of the store.  An action of this module is one store call   *)
(* of one request together with the synchronous code that follows it up    *)
(* to the next store call.  Requests of different clients interleave at    *)
(* these steps.                                                            *)
(*                                                                         *)
(* document.save() writes the modified paths of the in-memory document     *)
(* with their in-memory values (a $set), not a delta.                      *)
(*                                                                         *)
(* The product routes (create, update, delete) take part in CatalogSpec    *)
(* only: in the other specifications the product collection keeps the      *)
(* documents it starts with, so a stored line item always names a         *)
(* product.  A store call that throws is a step of CancelSpec              *)
(* (cancellation) and of CreateOrderSpec and CreatePurchaseOrderSpec       *)
(* (creation) only.                                                        *)
(***************************************************************************)
EXTENDS Integers, Sequences, FiniteSets, TLC

\* ------------------------------------------------------------------ bounds
MaxItems == 2      \* most line items in one request
MaxRequests == 3   \* requests served in one behaviour

\* --------------------------------------------------------------- the store
\* the products the store holds at the start
ProductIds == {"p1", "p2"}
\* the ids the store gives to the products created later, in this order; an
\* id is never given twice
NewProductIds == <<"p3">>
\* every id a product document may have
StoreProductIds == ProductIds \cup {NewProductIds[k] : k \in DOMAIN NewProductIds}
\* an id that resolves to no product
MissingProduct == "p0"
RequestProductIds == ProductIds \cup {MissingProduct}

Admin == [id |-> "admin", role |-> "admin"]
Users == {[id |-> "u1", role |-> "user"], [id |-> "u2", role |-> "user"]}
Actors == Users \cup {Admin}

\* ids the store hands out: the documents a behaviour creates
OrderIdSpace == {1, 2}
POIdSpace == {1}

\* request slots of the server: requests in flight at once
Clients == {1, 2}

OrderStatuses == {"pending", "processing", "shipped", "delivered", "cancelled"}
\* status of an order created without one
DefaultOrderStatus == "pending"
POStatuses == {"pending", "approved", "received", "cancelled"}

\* receivedDate of a purchase order that has none
NoDate == 0
\* unitPrice of a request item that carries none
NoPrice == -1

InitialProducts ==
    [p \in ProductIds |->
        IF p = "p1" THEN [name |-> "bolt", sku |-> "sku-p1", price |-> 2, stock |-> 2]
                    ELSE [name |-> "nut", sku |-> "sku-p2", price |-> 1, stock |-> 1]]

VARIABLES
    products,   \* product collection: id -> [name, sku, price, stock]
    created,    \* number of products the store has created since the start
    orders,     \* order collection, in creation order; the index is the id
    pos,        \* purchase-order collection, in creation order
    req,        \* per client: the request it has in flight and its locals
    clock,      \* value of the last `new Date()`
    nreq,       \* requests received so far
    prev,       \* history: the request that returned last
    poCredits,  \* history: per purchase order and line item, credits written
    orderHist   \* history: per order, credits written per line item and
                \* whether its persisted status has ever been cancelled

vars == <<products, orders, pos, req, clock, nreq, prev, poCredits, orderHist, created>>

\* ----------------------------------------------------------------- helpers
RECURSIVE QtyOf(_, _)
\* summed quantity of product p in a list of line items
QtyOf(items, p) ==
    IF items = <<>> THEN 0
    ELSE (IF Head(items).product = p THEN Head(items).quantity ELSE 0)
         + QtyOf(Tail(items), p)

\* line-item quantities a request carries (the schemas require quantity >= 1)
Quantities == {1, 2}
\* a line item of a request body
RequestItems == [product : RequestProductIds, quantity : Quantities]
\* a line item that names a product of the store
StockedItems == {item \in RequestItems : item.product \in ProductIds}

\* a request body: the fields it carries and their values
NoBody == [fields |-> {}, status |-> "-", receivedDate |-> NoDate]

Snapshot == [products |-> products, orders |-> orders, pos |-> pos]
NoSnapshot == [products |-> InitialProducts, orders |-> <<>>, pos |-> <<>>]

Idle ==
    [op |-> "-", pc |-> "idle", actor |-> Admin, id |-> 0, product |-> "-",
     items |-> <<>>,
     status |-> "-", body |-> NoBody, i |-> 0, stock |-> 0, acc |-> <<>>,
     total |-> 0, recv |-> NoDate, mods |-> {}, resp |-> "-", pre |-> NoSnapshot]

StockOf(prods) == [p \in DOMAIN prods |-> prods[p].stock]

NoPrev == [op |-> "-", id |-> 0, status |-> "-", resp |-> "-",
           stock |-> StockOf(InitialProducts), recv |-> NoDate]

Init ==
    /\ products = InitialProducts
    /\ orders = <<>>
    /\ pos = <<>>
    /\ req = [c \in Clients |-> Idle]
    /\ clock = 0
    /\ nreq = 0
    /\ prev = NoPrev
    /\ poCredits = <<>>
    /\ orderHist = <<>>
    /\ created = 0

InFlight == {d \in Clients : req[d].pc # "idle"}

\* A new request r reaches the server and is handed to client slot c.  With
\* alone = TRUE the server takes a request only when none is in flight, and
\* the history (pre, prev) is recorded; with alone = FALSE requests overlap.
\* Slots are interchangeable: a request takes the first free one.
Receive(c, alone, r) ==
    /\ req[c].pc = "idle"
    /\ \A d \in Clients : req[d].pc = "idle" => ~(d < c)
    /\ nreq < MaxRequests
    /\ alone => InFlight = {}
    /\ nreq' = nreq + 1
    /\ req' = [req EXCEPT ![c] = [r EXCEPT !.pre = IF alone THEN Snapshot ELSE NoSnapshot]]

\* res.status(..).json(..): the handler ends with response `resp`
Respond(c, resp) ==
    req' = [req EXCEPT ![c].pc = "done", ![c].resp = resp]

\* the response has reached the client
Return(c, alone) ==
    /\ req[c].pc = "done"
    /\ prev' = IF alone
               THEN [op |-> req[c].op, id |-> req[c].id, status |-> req[c].status,
                     resp |-> req[c].resp, stock |-> StockOf(req[c].pre.products),
                     recv |-> IF req[c].id \in DOMAIN req[c].pre.pos
                              THEN req[c].pre.pos[req[c].id].receivedDate ELSE NoDate]
               ELSE prev
    /\ req' = [req EXCEPT ![c] = Idle]
    /\ UNCHANGED <<products, orders, pos, clock, nreq, poCredits, orderHist, created>>

\* pc after the product step of line item i of a stored document's items
AfterItem(r, more, last) == IF r.i < Len(r.items) THEN more ELSE last

\* ------------------------------------------------------- POST /api/orders
\* The request's items are drawn when the loop reaches them: items holds the
\* line items consumed so far.
CreateOrderReceive(c, alone, actor, empty) ==
    /\ Len(orders) + Cardinality({d \in Clients : req[d].op = "CreateOrder"}) < Cardinality(OrderIdSpace)
    /\ Receive(c, alone, [Idle EXCEPT !.op = "CreateOrder", !.actor = actor,
                                      !.pc = IF empty THEN "done" ELSE "co_find",
                                      !.resp = IF empty THEN "EmptyOrder" ELSE "-"])
    /\ UNCHANGED <<products, orders, pos, clock, prev, poCredits, orderHist, created>>

\* in-memory product.stock -= item.quantity
Debit(stock, quantity) == stock - quantity

\* a price a request item may carry beside product and quantity
ClientPrices == {NoPrice, 7}
\* a line item of a request body that may carry a price
PricedItems == [product : RequestProductIds, quantity : Quantities, price : ClientPrices]

\* mutant: a price sent with the item is taken over
LinePriceClient(item, product) ==
    IF item.price # NoPrice THEN item.price ELSE product.price

\* price: product.price
LinePrice(item, product) == product.price

\* Product.findById for the next item, the two checks, and the in-memory debit
CreateOrderFind(c, item) ==
    LET r == req[c]
    IN /\ r.pc = "co_find"
       /\ IF item.product \notin DOMAIN products
          THEN req' = [req EXCEPT ![c].items = Append(@, item),
                                  ![c].pc = "done", ![c].resp = "ProductNotFound"]
          ELSE LET product == products[item.product]
               IN IF product.stock < item.quantity
                  THEN req' = [req EXCEPT ![c].items = Append(@, item),
                                          ![c].pc = "done",
                                          ![c].resp = "InsufficientStock"]
                  ELSE req' = [req EXCEPT
                           ![c].items = Append(@, item),
                           ![c].acc = Append(@, [product |-> item.product,
                                                 productName |-> product.name,
                                                 quantity |-> item.quantity,
                                                 price |-> LinePrice(item, product)]),
                           ![c].total = @ + LinePrice(item, product) * item.quantity,
                           ![c].stock = Debit(product.stock, item.quantity),
                           ![c].pc = "co_save"]
       /\ UNCHANGED <<products, orders, pos, clock, nreq, prev, poCredits, orderHist, created>>

\* mutant: the save applies the debit to the stored stock instead of writing
\* the in-memory value
CreateOrderSaveDelta(c, more) ==
    LET r == req[c]
        item == r.items[Len(r.items)]
    IN /\ r.pc = "co_save"
       /\ more => Len(r.items) < MaxItems
       /\ products' = [products EXCEPT ![item.product].stock = @ - item.quantity]
       /\ req' = [req EXCEPT ![c].pc = IF more THEN "co_find" ELSE "co_create"]
       /\ UNCHANGED <<orders, pos, clock, nreq, prev, poCredits, orderHist, created>>

\* product.save() of the current item; `more`: the request has another item
CreateOrderSave(c, more) ==
    LET r == req[c]
        item == r.items[Len(r.items)]
    IN /\ r.pc = "co_save"
       /\ more => Len(r.items) < MaxItems
       /\ products' = [products EXCEPT ![item.product].stock = r.stock]
       /\ req' = [req EXCEPT ![c].pc = IF more THEN "co_find" ELSE "co_create"]
       /\ UNCHANGED <<orders, pos, clock, nreq, prev, poCredits, orderHist, created>>

\* Order.create after the last item; status defaults to pending
CreateOrderCreate(c) ==
    LET r == req[c]
    IN /\ r.pc = "co_create"
       /\ orders' = Append(orders, [user |-> r.actor.id, items |-> r.acc,
                                    totalAmount |-> r.total, status |-> DefaultOrderStatus])
       /\ req' = [req EXCEPT ![c].pc = "co_populate", ![c].id = Len(orders) + 1]
       /\ orderHist' = Append(orderHist, [credits |-> [k \in 1..Len(r.acc) |-> 0],
                                          cancelled |-> FALSE])
       /\ UNCHANGED <<products, pos, clock, nreq, prev, poCredits, created>>

\* Order.findById(order._id).populate(..): the stored order is read again and
\* sent with status 201, whatever the read finds
CreateOrderPopulate(c) ==
    /\ req[c].pc = "co_populate"
    /\ Respond(c, "Created")
    /\ UNCHANGED <<products, orders, pos, clock, nreq, prev, poCredits, orderHist, created>>

\* catch (error): an awaited store call of the handler throws, nothing is
\* written by it and the request ends with status 500
CreateOrderStoreFails(c) ==
    /\ req[c].op = "CreateOrder"
    /\ req[c].pc \in {"co_find", "co_save", "co_create", "co_populate"}
    /\ Respond(c, "ServerError")
    /\ UNCHANGED <<products, orders, pos, clock, nreq, prev, poCredits, orderHist, created>>

\* --------------------------------------------- PUT /api/orders/:id/status
UpdateOrderStatusReceive(c, alone, id, status) ==
    /\ Receive(c, alone, [Idle EXCEPT !.op = "UpdateOrderStatus", !.id = id,
                                      !.status = status, !.pc = "uo_find"])
    /\ UNCHANGED <<products, orders, pos, clock, prev, poCredits, orderHist, created>>

\* Order.findById, then order.status = status in memory
UpdateOrderStatusFind(c) ==
    LET r == req[c]
    IN /\ r.pc = "uo_find"
       /\ IF r.id \notin DOMAIN orders
          THEN Respond(c, "NotFound")
          ELSE req' = [req EXCEPT
                   ![c].mods = IF orders[r.id].status # r.status THEN {"status"} ELSE {},
                   ![c].pc = "uo_save"]
       /\ UNCHANGED <<products, orders, pos, clock, nreq, prev, poCredits, orderHist, created>>

\* order.save()
UpdateOrderStatusSave(c) ==
    LET r == req[c]
    IN /\ r.pc = "uo_save"
       /\ orders' = IF "status" \in r.mods
                    THEN [orders EXCEPT ![r.id].status = r.status]
                    ELSE orders
       /\ orderHist' = IF "status" \in r.mods /\ r.status = "cancelled"
                       THEN [orderHist EXCEPT ![r.id].cancelled = TRUE]
                       ELSE orderHist
       /\ Respond(c, "OK")
       /\ UNCHANGED <<products, pos, clock, nreq, prev, poCredits, created>>

\* ---------------------------------------------------- DELETE /api/orders/:id
CancelOrderReceive(c, alone, actor, id) ==
    /\ Receive(c, alone, [Idle EXCEPT !.op = "CancelOrder", !.actor = actor,
                                      !.id = id, !.pc = "cn_find"])
    /\ UNCHANGED <<products, orders, pos, clock, prev, poCredits, orderHist, created>>

\* mutant: the ownership test is missing
NotAuthorizedNoOwner(actor, order) == actor.role # "admin" /\ actor.role # "user"

\* req.user.role !== 'admin' && order.user.toString() !== req.user._id.toString()
NotAuthorized(actor, order) == actor.role # "admin" /\ order.user # actor.id

\* mutant: only shipped and delivered orders are refused
NotCancellableShipped(order) == order.status = "shipped" \/ order.status = "delivered"

\* order.status !== 'pending' && order.status !== 'processing'
NotCancellable(order) == order.status # "pending" /\ order.status # "processing"

\* mutant: the status is saved as cancelled before the credit loop
CancelOrderFindMarking(c) ==
    LET r == req[c]
    IN /\ r.pc = "cn_find"
       /\ IF r.id \notin DOMAIN orders
          THEN Respond(c, "NotFound") /\ orders' = orders
          ELSE IF NotAuthorized(r.actor, orders[r.id])
          THEN Respond(c, "Forbidden") /\ orders' = orders
          ELSE IF NotCancellable(orders[r.id])
          THEN Respond(c, "InvalidState") /\ orders' = orders
          ELSE /\ req' = [req EXCEPT ![c].items = orders[r.id].items, ![c].i = 1,
                                     ![c].pc = "cn_pfind"]
               /\ orders' = [orders EXCEPT ![r.id].status = "cancelled"]
       /\ UNCHANGED <<products, pos, clock, nreq, prev, poCredits, orderHist, created>>

\* Order.findById and the three checks
CancelOrderFind(c) ==
    LET r == req[c]
    IN /\ r.pc = "cn_find"
       /\ IF r.id \notin DOMAIN orders
          THEN Respond(c, "NotFound")
          ELSE IF NotAuthorized(r.actor, orders[r.id])
          THEN Respond(c, "Forbidden")
          ELSE IF NotCancellable(orders[r.id])
          THEN Respond(c, "InvalidState")
          ELSE req' = [req EXCEPT ![c].items = orders[r.id].items, ![c].i = 1,
                                  ![c].pc = "cn_pfind"]
       /\ UNCHANGED <<products, orders, pos, clock, nreq, prev, poCredits, orderHist, created>>

\* mutant: the credit adds one unit whatever the quantity
CreditOne(stock, quantity) == stock + 1

\* in-memory product.stock += item.quantity
Credit(stock, quantity) == stock + quantity

\* Product.findById of item i and the in-memory credit; a missing product is
\* skipped
CancelOrderFindProduct(c) ==
    LET r == req[c]
        item == r.items[r.i]
    IN /\ r.pc = "cn_pfind"
       /\ IF item.product \in DOMAIN products
          THEN req' = [req EXCEPT
                   ![c].stock = Credit(products[item.product].stock, item.quantity),
                   ![c].pc = "cn_psave"]
          ELSE req' = [req EXCEPT ![c].i = @ + 1,
                                  ![c].pc = AfterItem(r, "cn_pfind", "cn_save")]
       /\ UNCHANGED <<products, orders, pos, clock, nreq, prev, poCredits, orderHist, created>>

\* product.save() of item i
CancelOrderSaveProduct(c) ==
    LET r == req[c]
        item == r.items[r.i]
    IN /\ r.pc = "cn_psave"
       /\ products' = [products EXCEPT ![item.product].stock = r.stock]
       /\ req' = [req EXCEPT ![c].i = @ + 1,
                             ![c].pc = AfterItem(r, "cn_pfind", "cn_save")]
       /\ orderHist' = [orderHist EXCEPT ![r.id].credits[r.i] = @ + 1]
       /\ UNCHANGED <<orders, pos, clock, nreq, prev, poCredits, created>>

\* order.status = 'cancelled'; order.save()
CancelOrderSave(c) ==
    LET r == req[c]
    IN /\ r.pc = "cn_save"
       /\ orders' = [orders EXCEPT ![r.id].status = "cancelled"]
       /\ orderHist' = [orderHist EXCEPT ![r.id].cancelled = TRUE]
       /\ Respond(c, "Cancelled")
       /\ UNCHANGED <<products, pos, clock, nreq, prev, poCredits, created>>

\* catch (error): an awaited store call of the handler throws, nothing is
\* written by it and the request ends with status 500
CancelOrderStoreFails(c) ==
    /\ req[c].op = "CancelOrder"
    /\ req[c].pc \in {"cn_find", "cn_pfind", "cn_psave", "cn_save"}
    /\ Respond(c, "ServerError")
    /\ UNCHANGED <<products, orders, pos, clock, nreq, prev, poCredits, orderHist, created>>

\* ------------------------------------------- POST /api/purchase-orders
\* unit prices a purchase-order request item may carry
RequestUnitPrices == {NoPrice}
RequestPOItems ==
    [product : RequestProductIds, quantity : Quantities, unitPrice : RequestUnitPrices]

\* unit prices a purchase-order request item may carry, 0 among them
ClientUnitPrices == {NoPrice, 0, 3}
PricedPOItems ==
    [product : RequestProductIds, quantity : Quantities, unitPrice : ClientUnitPrices]

\* item.unitPrice || product.price
UnitPrice(item, product) ==
    IF item.unitPrice = NoPrice \/ item.unitPrice = 0 THEN product.price
    ELSE item.unitPrice

CreatePurchaseOrderReceive(c, alone, empty) ==
    /\ Len(pos) + Cardinality({d \in Clients : req[d].op = "CreatePurchaseOrder"}) < Cardinality(POIdSpace)
    /\ Receive(c, alone, [Idle EXCEPT !.op = "CreatePurchaseOrder",
                                      !.pc = IF empty THEN "done" ELSE "po_find",
                                      !.resp = IF empty THEN "EmptyOrder" ELSE "-"])
    /\ UNCHANGED <<products, orders, pos, clock, prev, poCredits, orderHist, created>>

\* Product.findById for the next item; `more`: the request has another item
CreatePurchaseOrderFind(c, item, more) ==
    LET r == req[c]
    IN /\ r.pc = "po_find"
       /\ more => Len(r.items) + 1 < MaxItems
       /\ IF item.product \notin DOMAIN products
          THEN req' = [req EXCEPT ![c].items = Append(@, item),
                                  ![c].pc = "done", ![c].resp = "ProductNotFound"]
          ELSE LET product == products[item.product]
               IN req' = [req EXCEPT
                      ![c].items = Append(@, item),
                      ![c].acc = Append(@, [product |-> item.product,
                                            productName |-> product.name,
                                            quantity |-> item.quantity,
                                            unitPrice |-> UnitPrice(item, product)]),
                      ![c].total = @ + UnitPrice(item, product) * item.quantity,
                      ![c].pc = IF more THEN "po_find" ELSE "po_create"]
       /\ UNCHANGED <<products, orders, pos, clock, nreq, prev, poCredits, orderHist, created>>

\* PurchaseOrder.create; status defaults to pending, receivedDate is unset
CreatePurchaseOrderCreate(c) ==
    LET r == req[c]
    IN /\ r.pc = "po_create"
       /\ pos' = Append(pos, [items |-> r.acc, totalAmount |-> r.total,
                              status |-> "pending", receivedDate |-> NoDate,
                              exists |-> TRUE])
       /\ poCredits' = Append(poCredits, [k \in 1..Len(r.acc) |-> 0])
       /\ req' = [req EXCEPT ![c].pc = "po_populate", ![c].id = Len(pos) + 1]
       /\ UNCHANGED <<products, orders, clock, nreq, prev, orderHist, created>>

\* PurchaseOrder.findById(purchaseOrder._id).populate(..): the stored purchase
\* order is read again and sent with status 201, whatever the read finds
CreatePurchaseOrderPopulate(c) ==
    /\ req[c].pc = "po_populate"
    /\ Respond(c, "Created")
    /\ UNCHANGED <<products, orders, pos, clock, nreq, prev, poCredits, orderHist, created>>

\* catch (error): an awaited store call of the handler throws, nothing is
\* written by it and the request ends with status 500
CreatePurchaseOrderStoreFails(c) ==
    /\ req[c].op = "CreatePurchaseOrder"
    /\ req[c].pc \in {"po_find", "po_create", "po_populate"}
    /\ Respond(c, "ServerError")
    /\ UNCHANGED <<products, orders, pos, clock, nreq, prev, poCredits, orderHist, created>>

\* PurchaseOrder.findById
FindPO(id) == id \in DOMAIN pos /\ pos[id].exists

\* ------------------------------------- PUT /api/purchase-orders/:id/status
UpdatePOStatusReceive(c, alone, id, status) ==
    /\ Receive(c, alone, [Idle EXCEPT !.op = "UpdatePOStatus", !.id = id,
                                      !.status = status, !.pc = "ps_find"])
    /\ UNCHANGED <<products, orders, pos, clock, prev, poCredits, orderHist, created>>

\* mutant: the receivedDate test is missing
ShouldReceiveAgain(status, po) == status = "received"

\* status === 'received' && !purchaseOrder.receivedDate
ShouldReceive(status, po) == status = "received" /\ po.receivedDate = NoDate

\* PurchaseOrder.findById, the in-memory status, and the received test with
\* receivedDate = new Date()
UpdatePOStatusFind(c) ==
    LET r == req[c]
    IN /\ r.pc = "ps_find"
       /\ IF ~FindPO(r.id)
          THEN /\ Respond(c, "NotFound")
               /\ clock' = clock
          ELSE LET po == pos[r.id]
                   statusMod == IF po.status # r.status THEN {"status"} ELSE {}
               IN IF ShouldReceive(r.status, po)
                  THEN /\ clock' = clock + 1
                       /\ req' = [req EXCEPT
                              ![c].recv = clock + 1,
                              ![c].mods = statusMod \cup {"receivedDate"},
                              ![c].items = po.items, ![c].i = 1,
                              ![c].pc = IF po.items = <<>> THEN "ps_save" ELSE "ps_pfind"]
                  ELSE /\ clock' = clock
                       /\ req' = [req EXCEPT ![c].mods = statusMod, ![c].pc = "ps_save"]
       /\ UNCHANGED <<products, orders, pos, nreq, prev, poCredits, orderHist, created>>

\* Product.findById of item i and the in-memory credit; a missing product is
\* skipped
UpdatePOStatusFindProduct(c) ==
    LET r == req[c]
        item == r.items[r.i]
    IN /\ r.pc = "ps_pfind"
       /\ IF item.product \in DOMAIN products
          THEN req' = [req EXCEPT
                   ![c].stock = Credit(products[item.product].stock, item.quantity),
                   ![c].pc = "ps_psave"]
          ELSE req' = [req EXCEPT ![c].i = @ + 1,
                                  ![c].pc = AfterItem(r, "ps_pfind", "ps_save")]
       /\ UNCHANGED <<products, orders, pos, clock, nreq, prev, poCredits, orderHist, created>>

\* product.save() of item i
UpdatePOStatusSaveProduct(c) ==
    LET r == req[c]
        item == r.items[r.i]
    IN /\ r.pc = "ps_psave"
       /\ products' = [products EXCEPT ![item.product].stock = r.stock]
       /\ poCredits' = [poCredits EXCEPT ![r.id][r.i] = @ + 1]
       /\ req' = [req EXCEPT ![c].i = @ + 1,
                             ![c].pc = AfterItem(r, "ps_pfind", "ps_save")]
       /\ UNCHANGED <<orders, pos, clock, nreq, prev, orderHist, created>>

\* purchaseOrder.save(): the modified paths are written; a document that was
\* deleted meanwhile is not written back, and whether save() then throws
\* depends on the mongoose version
UpdatePOStatusSave(c) ==
    LET r == req[c]
    IN /\ r.pc = "ps_save"
       /\ IF FindPO(r.id)
          THEN /\ pos' = [pos EXCEPT
                      ![r.id].status = IF "status" \in r.mods THEN r.status ELSE @,
                      ![r.id].receivedDate = IF "receivedDate" \in r.mods THEN r.recv ELSE @]
               /\ Respond(c, "OK")
          ELSE /\ pos' = pos
               /\ \E resp \in {"OK", "ServerError"} : Respond(c, resp)
       /\ UNCHANGED <<products, orders, clock, nreq, prev, poCredits, orderHist, created>>

\* -------------------------------------------- PUT /api/purchase-orders/:id
\* dates a request body carries
ClientDates == {9}
\* request bodies: a status, or a receivedDate
UpdateBodies ==
    {[fields |-> {"status"}, status |-> s, receivedDate |-> NoDate] : s \in POStatuses}
    \cup {[fields |-> {"receivedDate"}, status |-> "-", receivedDate |-> d] :
              d \in ClientDates}

UpdatePOReceive(c, alone, id, body) ==
    /\ Receive(c, alone, [Idle EXCEPT !.op = "UpdatePO", !.id = id,
                                      !.body = body, !.pc = "up_find"])
    /\ UNCHANGED <<products, orders, pos, clock, prev, poCredits, orderHist, created>>

\* mutant: the guard tests the wrong status
FrozenCancelled(po) == po.status = "cancelled"

\* purchaseOrder.status === 'received'
Frozen(po) == po.status = "received"

\* PurchaseOrder.findById and the received guard
UpdatePOFind(c) ==
    LET r == req[c]
    IN /\ r.pc = "up_find"
       /\ IF ~FindPO(r.id) THEN Respond(c, "NotFound")
          ELSE IF Frozen(pos[r.id]) THEN Respond(c, "InvalidState")
          ELSE req' = [req EXCEPT ![c].pc = "up_update"]
       /\ UNCHANGED <<products, orders, pos, clock, nreq, prev, poCredits, orderHist, created>>

\* PurchaseOrder.findByIdAndUpdate(id, req.body)
UpdatePOUpdate(c) ==
    LET r == req[c]
    IN /\ r.pc = "up_update"
       /\ pos' = IF FindPO(r.id)
                 THEN [pos EXCEPT
                     ![r.id].status =
                         IF "status" \in r.body.fields THEN r.body.status ELSE @,
                     ![r.id].receivedDate =
                         IF "receivedDate" \in r.body.fields THEN r.body.receivedDate ELSE @]
                 ELSE pos
       /\ Respond(c, "OK")
       /\ UNCHANGED <<products, orders, clock, nreq, prev, poCredits, orderHist, created>>

\* ----------------------------------------- DELETE /api/purchase-orders/:id
DeletePOReceive(c, alone, id) ==
    /\ Receive(c, alone, [Idle EXCEPT !.op = "DeletePO", !.id = id, !.pc = "dp_find"])
    /\ UNCHANGED <<products, orders, pos, clock, prev, poCredits, orderHist, created>>

\* PurchaseOrder.findById and the received guard
DeletePOFind(c) ==
    LET r == req[c]
    IN /\ r.pc = "dp_find"
       /\ IF ~FindPO(r.id) THEN Respond(c, "NotFound")
          ELSE IF Frozen(pos[r.id]) THEN Respond(c, "InvalidState")
          ELSE req' = [req EXCEPT ![c].pc = "dp_delete"]
       /\ UNCHANGED <<products, orders, pos, clock, nreq, prev, poCredits, orderHist, created>>

\* PurchaseOrder.findByIdAndDelete
DeletePODelete(c) ==
    LET r == req[c]
    IN /\ r.pc = "dp_delete"
       /\ pos' = IF FindPO(r.id) THEN [pos EXCEPT ![r.id].exists = FALSE] ELSE pos
       /\ Respond(c, "Deleted")
       /\ UNCHANGED <<products, orders, clock, nreq, prev, poCredits, orderHist, created>>

\* ------------------------------------------------------ POST /api/products
\* request bodies: a product with a sku of its own, and one with the sku of p1
NewProducts ==
    {[name |-> "gear", sku |-> "sku-g", price |-> 4, stock |-> 3],
     [name |-> "bolt", sku |-> InitialProducts["p1"].sku, price |-> 2, stock |-> 2]}

CreateProductReceive(c, alone, body) ==
    /\ created + Cardinality({d \in Clients : req[d].op = "CreateProduct"})
           < Len(NewProductIds)
    /\ Receive(c, alone, [Idle EXCEPT !.op = "CreateProduct", !.body = body,
                                      !.pc = "cp_find"])
    /\ UNCHANGED <<products, orders, pos, clock, prev, poCredits, orderHist, created>>

\* Product.findOne({ sku }) and the test of its result
CreateProductFind(c) ==
    LET r == req[c]
    IN /\ r.pc = "cp_find"
       /\ IF \E p \in DOMAIN products : products[p].sku = r.body.sku
          THEN Respond(c, "SkuExists")
          ELSE req' = [req EXCEPT ![c].pc = "cp_create"]
       /\ UNCHANGED <<products, orders, pos, clock, nreq, prev, poCredits, orderHist, created>>

\* Product.create and the 201
CreateProductCreate(c) ==
    LET r == req[c]
        new == NewProductIds[created + 1]
    IN /\ r.pc = "cp_create"
       /\ products' = [p \in DOMAIN products \cup {new} |->
                           IF p = new THEN r.body ELSE products[p]]
       /\ created' = created + 1
       /\ req' = [req EXCEPT ![c].pc = "done", ![c].resp = "Created",
                             ![c].product = new]
       /\ UNCHANGED <<orders, pos, clock, nreq, prev, poCredits, orderHist>>

\* ---------------------------------------------------- PUT /api/products/:id
\* request bodies: a name, or a price
ProductBodies ==
    {[fields |-> {"name"}, name |-> "washer", price |-> NoPrice],
     [fields |-> {"price"}, name |-> "-", price |-> 5]}

UpdateProductReceive(c, alone, p, body) ==
    /\ Receive(c, alone, [Idle EXCEPT !.op = "UpdateProduct", !.product = p,
                                      !.body = body, !.pc = "pu_find"])
    /\ UNCHANGED <<products, orders, pos, clock, prev, poCredits, orderHist, created>>

\* Product.findById
UpdateProductFind(c) ==
    LET r == req[c]
    IN /\ r.pc = "pu_find"
       /\ IF r.product \notin DOMAIN products THEN Respond(c, "NotFound")
          ELSE req' = [req EXCEPT ![c].pc = "pu_update"]
       /\ UNCHANGED <<products, orders, pos, clock, nreq, prev, poCredits, orderHist, created>>

\* the product document after req.body is written over it
Updated(product, body) ==
    [product EXCEPT !.name = IF "name" \in body.fields THEN body.name ELSE @,
                    !.price = IF "price" \in body.fields THEN body.price ELSE @]

\* mutant: the new name and price are written into the order items that hold
\* the product as well
UpdateProductUpdateOrders(c) ==
    LET r == req[c]
        p == r.product
        Item(item) ==
            IF item.product = p
            THEN [item EXCEPT !.productName = Updated(products[p], r.body).name,
                              !.price = Updated(products[p], r.body).price]
            ELSE item
    IN /\ r.pc = "pu_update"
       /\ products' = IF p \in DOMAIN products
                      THEN [products EXCEPT ![p] = Updated(@, r.body)]
                      ELSE products
       /\ orders' = IF p \in DOMAIN products
                    THEN [o \in DOMAIN orders |->
                             [orders[o] EXCEPT !.items =
                                 [k \in DOMAIN orders[o].items |-> Item(orders[o].items[k])]]]
                    ELSE orders
       /\ Respond(c, "OK")
       /\ UNCHANGED <<pos, clock, nreq, prev, poCredits, orderHist, created>>

\* Product.findByIdAndUpdate(id, req.body)
UpdateProductUpdate(c) ==
    LET r == req[c]
    IN /\ r.pc = "pu_update"
       /\ products' = IF r.product \in DOMAIN products
                      THEN [products EXCEPT ![r.product] = Updated(@, r.body)]
                      ELSE products
       /\ Respond(c, "OK")
       /\ UNCHANGED <<orders, pos, clock, nreq, prev, poCredits, orderHist, created>>

\* ------------------------------------------------- DELETE /api/products/:id
DeleteProductReceive(c, alone, p) ==
    /\ Receive(c, alone, [Idle EXCEPT !.op = "DeleteProduct", !.product = p,
                                      !.pc = "pd_find"])
    /\ UNCHANGED <<products, orders, pos, clock, prev, poCredits, orderHist, created>>

\* Product.findById
DeleteProductFind(c) ==
    LET r == req[c]
    IN /\ r.pc = "pd_find"
       /\ IF r.product \notin DOMAIN products THEN Respond(c, "NotFound")
          ELSE req' = [req EXCEPT ![c].pc = "pd_delete"]
       /\ UNCHANGED <<products, orders, pos, clock, nreq, prev, poCredits, orderHist, created>>

\* Product.findByIdAndDelete
DeleteProductDelete(c) ==
    LET r == req[c]
    IN /\ r.pc = "pd_delete"
       /\ products' = [p \in DOMAIN products \ {r.product} |-> products[p]]
       /\ Respond(c, "Deleted")
       /\ UNCHANGED <<orders, pos, clock, nreq, prev, poCredits, orderHist, created>>

\* ------------------------------------------------------- specifications
OrderIds == 1..(Len(orders) + 1)
POIds == 1..(Len(pos) + 1)

\* the order routes, one request at a time
OrderNext ==
    \E c \in Clients :
        \/ \E actor \in Actors, empty \in BOOLEAN : CreateOrderReceive(c, TRUE, actor, empty)
        \/ \E item \in RequestItems : CreateOrderFind(c, item)
        \/ \E more \in BOOLEAN : CreateOrderSave(c, more)
        \/ CreateOrderCreate(c)
        \/ CreateOrderPopulate(c)
        \/ \E id \in OrderIds, status \in OrderStatuses :
               UpdateOrderStatusReceive(c, TRUE, id, status)
        \/ UpdateOrderStatusFind(c)
        \/ UpdateOrderStatusSave(c)
        \/ \E actor \in Actors, id \in OrderIds : CancelOrderReceive(c, TRUE, actor, id)
        \/ CancelOrderFind(c)
        \/ CancelOrderFindProduct(c)
        \/ CancelOrderSaveProduct(c)
        \/ CancelOrderSave(c)
        \/ Return(c, TRUE)

OrderSpec == Init /\ [][OrderNext]_vars

\* the purchase-order routes, one request at a time
PurchaseNext ==
    \E c \in Clients :
        \/ \E empty \in BOOLEAN : CreatePurchaseOrderReceive(c, TRUE, empty)
        \/ \E item \in RequestPOItems, more \in BOOLEAN : CreatePurchaseOrderFind(c, item, more)
        \/ CreatePurchaseOrderCreate(c)
        \/ CreatePurchaseOrderPopulate(c)
        \/ \E id \in POIds, status \in POStatuses : UpdatePOStatusReceive(c, TRUE, id, status)
        \/ UpdatePOStatusFind(c)
        \/ UpdatePOStatusFindProduct(c)
        \/ UpdatePOStatusSaveProduct(c)
        \/ UpdatePOStatusSave(c)
        \/ \E id \in POIds, body \in UpdateBodies : UpdatePOReceive(c, TRUE, id, body)
        \/ UpdatePOFind(c)
        \/ UpdatePOUpdate(c)
        \/ \E id \in POIds : DeletePOReceive(c, TRUE, id)
        \/ DeletePOFind(c)
        \/ DeletePODelete(c)
        \/ Return(c, TRUE)

PurchaseSpec == Init /\ [][PurchaseNext]_vars

Customer == CHOOSE u \in Users : u.id = "u1"
\* a purchase-order line item that restocks p1
RestockItems == {item \in RequestPOItems : item.product = "p1"}

\* the routes that move stock, with requests in flight at once
Next ==
    \E c \in Clients :
        \/ CreateOrderReceive(c, FALSE, Customer, FALSE)
        \/ \E item \in StockedItems : CreateOrderFind(c, item)
        \/ \E more \in BOOLEAN : CreateOrderSave(c, more)
        \/ CreateOrderCreate(c)
        \/ CreateOrderPopulate(c)
        \/ \E id \in DOMAIN orders : CancelOrderReceive(c, FALSE, Customer, id)
        \/ CancelOrderFind(c)
        \/ CancelOrderFindProduct(c)
        \/ CancelOrderSaveProduct(c)
        \/ CancelOrderSave(c)
        \/ CreatePurchaseOrderReceive(c, FALSE, FALSE)
        \/ \E item \in RestockItems : CreatePurchaseOrderFind(c, item, FALSE)
        \/ CreatePurchaseOrderCreate(c)
        \/ CreatePurchaseOrderPopulate(c)
        \/ \E id \in DOMAIN pos : UpdatePOStatusReceive(c, FALSE, id, "received")
        \/ UpdatePOStatusFind(c)
        \/ UpdatePOStatusFindProduct(c)
        \/ UpdatePOStatusSaveProduct(c)
        \/ UpdatePOStatusSave(c)
        \/ Return(c, FALSE)

Spec == Init /\ [][Next]_vars

\* as Spec, every request carrying one line item: a request that fails has
\* written nothing
RaceNext ==
    \E c \in Clients :
        \/ CreateOrderReceive(c, FALSE, Customer, FALSE)
        \/ \E item \in StockedItems : CreateOrderFind(c, item)
        \/ CreateOrderSave(c, FALSE)
        \/ CreateOrderCreate(c)
        \/ CreateOrderPopulate(c)
        \/ \E id \in DOMAIN orders : CancelOrderReceive(c, FALSE, Customer, id)
        \/ CancelOrderFind(c)
        \/ CancelOrderFindProduct(c)
        \/ CancelOrderSaveProduct(c)
        \/ CancelOrderSave(c)
        \/ CreatePurchaseOrderReceive(c, FALSE, FALSE)
        \/ \E item \in RestockItems : CreatePurchaseOrderFind(c, item, FALSE)
        \/ CreatePurchaseOrderCreate(c)
        \/ CreatePurchaseOrderPopulate(c)
        \/ \E id \in DOMAIN pos : UpdatePOStatusReceive(c, FALSE, id, "received")
        \/ UpdatePOStatusFind(c)
        \/ UpdatePOStatusFindProduct(c)
        \/ UpdatePOStatusSaveProduct(c)
        \/ UpdatePOStatusSave(c)
        \/ Return(c, FALSE)

RaceSpec == Init /\ [][RaceNext]_vars

\* The store as one order creation leaves it: the Customer's pending order for
\* one unit of p1, and p1 debited by that unit.
PlacedOrder ==
    [user |-> Customer.id,
     items |-> <<[product |-> "p1", productName |-> InitialProducts["p1"].name,
                  quantity |-> 1, price |-> InitialProducts["p1"].price]>>,
     totalAmount |-> InitialProducts["p1"].price,
     status |-> DefaultOrderStatus]

PlacedInit ==
    /\ products = [InitialProducts EXCEPT !["p1"].stock = Debit(@, 1)]
    /\ orders = <<PlacedOrder>>
    /\ orderHist = <<[credits |-> <<0>>, cancelled |-> FALSE]>>
    /\ pos = <<>>
    /\ req = [c \in Clients |-> Idle]
    /\ clock = 0
    /\ nreq = 0
    /\ prev = NoPrev
    /\ poCredits = <<>>
    /\ created = 0

\* status updates and cancellations of orders already placed, one request at
\* a time
LifecycleNext ==
    \E c \in Clients :
        \/ \E id \in OrderIds, status \in OrderStatuses :
               UpdateOrderStatusReceive(c, TRUE, id, status)
        \/ UpdateOrderStatusFind(c)
        \/ UpdateOrderStatusSave(c)
        \/ \E actor \in Actors, id \in OrderIds : CancelOrderReceive(c, TRUE, actor, id)
        \/ CancelOrderFind(c)
        \/ CancelOrderFindProduct(c)
        \/ CancelOrderSaveProduct(c)
        \/ CancelOrderSave(c)
        \/ Return(c, TRUE)

LifecycleSpec == PlacedInit /\ [][LifecycleNext]_vars

\* a line item that names a product the store holds or may come to hold
CatalogItems == [product : StoreProductIds, quantity : Quantities]

\* the order routes of the Customer and the product creations, edits and
\* deletions of the admin, one request at a time
CatalogNext ==
    \E c \in Clients :
        \/ CreateOrderReceive(c, TRUE, Customer, FALSE)
        \/ \E item \in CatalogItems : CreateOrderFind(c, item)
        \/ \E more \in BOOLEAN : CreateOrderSave(c, more)
        \/ CreateOrderCreate(c)
        \/ CreateOrderPopulate(c)
        \/ \E id \in DOMAIN orders, status \in OrderStatuses :
               UpdateOrderStatusReceive(c, TRUE, id, status)
        \/ UpdateOrderStatusFind(c)
        \/ UpdateOrderStatusSave(c)
        \/ \E id \in DOMAIN orders : CancelOrderReceive(c, TRUE, Customer, id)
        \/ CancelOrderFind(c)
        \/ CancelOrderFindProduct(c)
        \/ CancelOrderSaveProduct(c)
        \/ CancelOrderSave(c)
        \/ \E body \in NewProducts : CreateProductReceive(c, TRUE, body)
        \/ CreateProductFind(c)
        \/ CreateProductCreate(c)
        \/ \E p \in StoreProductIds, body \in ProductBodies :
               UpdateProductReceive(c, TRUE, p, body)
        \/ UpdateProductFind(c)
        \/ UpdateProductUpdate(c)
        \/ \E p \in StoreProductIds : DeleteProductReceive(c, TRUE, p)
        \/ DeleteProductFind(c)
        \/ DeleteProductDelete(c)
        \/ Return(c, TRUE)

CatalogSpec == Init /\ [][CatalogNext]_vars

\* creation, the move to processing and cancellation of orders, one request
\* at a time, with store calls of the cancellation that may throw
CancelNext ==
    \E c \in Clients :
        \/ CreateOrderReceive(c, TRUE, Customer, FALSE)
        \/ \E item \in StockedItems : CreateOrderFind(c, item)
        \/ \E more \in BOOLEAN : CreateOrderSave(c, more)
        \/ CreateOrderCreate(c)
        \/ CreateOrderPopulate(c)
        \/ \E id \in DOMAIN orders : UpdateOrderStatusReceive(c, TRUE, id, "processing")
        \/ UpdateOrderStatusFind(c)
        \/ UpdateOrderStatusSave(c)
        \/ \E actor \in Actors, id \in DOMAIN orders : CancelOrderReceive(c, TRUE, actor, id)
        \/ CancelOrderFind(c)
        \/ CancelOrderFindProduct(c)
        \/ CancelOrderSaveProduct(c)
        \/ CancelOrderSave(c)
        \/ CancelOrderStoreFails(c)
        \/ Return(c, TRUE)

CancelSpec == Init /\ [][CancelNext]_vars

\* order creation, one request at a time, with request items that may carry
\* a price and store calls that may throw
CreateOrderNext ==
    \E c \in Clients :
        \/ \E actor \in Actors, empty \in BOOLEAN : CreateOrderReceive(c, TRUE, actor, empty)
        \/ \E item \in PricedItems : CreateOrderFind(c, item)
        \/ \E more \in BOOLEAN : CreateOrderSave(c, more)
        \/ CreateOrderCreate(c)
        \/ CreateOrderPopulate(c)
        \/ CreateOrderStoreFails(c)
        \/ Return(c, TRUE)

CreateOrderSpec == Init /\ [][CreateOrderNext]_vars

\* purchase-order creation, one request at a time, with request items that
\* may carry a unit price and store calls that may throw
CreatePurchaseOrderNext ==
    \E c \in Clients :
        \/ \E empty \in BOOLEAN : CreatePurchaseOrderReceive(c, TRUE, empty)
        \/ \E item \in PricedPOItems, more \in BOOLEAN : CreatePurchaseOrderFind(c, item, more)
        \/ CreatePurchaseOrderCreate(c)
        \/ CreatePurchaseOrderPopulate(c)
        \/ CreatePurchaseOrderStoreFails(c)
        \/ Return(c, TRUE)

CreatePurchaseOrderSpec == Init /\ [][CreatePurchaseOrderNext]_vars

\* ================================================================ claims
Quiescent == InFlight = {}

\* a request of the given kind has ended and its response is not yet returned
Ended(c, op) == req[c].pc = "done" /\ req[c].op = op

RECURSIVE SumQty(_, _)
\* summed quantity of product p over the documents of `docs`
SumQty(docs, p) ==
    IF docs = <<>> THEN 0
    ELSE QtyOf(Head(docs).items, p) + SumQty(Tail(docs), p)

NotCancelled(order) == order.status # "cancelled"
ReceiptApplied(po) == po.exists /\ po.receivedDate # NoDate

\* what the movements on record leave of product p
Ledger(p) ==
    InitialProducts[p].stock - SumQty(SelectSeq(orders, NotCancelled), p)
                             + SumQty(SelectSeq(pos, ReceiptApplied), p)

\* C1: no product's stock is negative in any reachable state, whatever the
\* interleaving of order creations, cancellations and purchase-order receipts.
StockNeverNegative == \A p \in ProductIds : products[p].stock >= 0

\* C1 witness: two orders were both accepted for more of a product than the
\* store ever held (both passed the sufficiency check before either wrote),
\* with no credit in between.
OversoldReached ==
    /\ Quiescent
    /\ Len(orders) = 2
    /\ pos = <<>>
    /\ \A o \in DOMAIN orders : orders[o].status = "pending"
    /\ \E p \in ProductIds : SumQty(orders, p) > InitialProducts[p].stock

\* the second of two 'received' status updates served back to back on a
\* purchase order that had no receivedDate has ended
SecondReceivedCall(c) ==
    /\ Ended(c, "UpdatePOStatus") /\ req[c].status = "received" /\ req[c].resp = "OK"
    /\ prev.op = "UpdatePOStatus" /\ prev.status = "received" /\ prev.resp = "OK"
    /\ prev.id = req[c].id
    /\ prev.recv = NoDate

\* C2: two 'received' status updates served one after the other on a purchase
\* order that had no receivedDate credit every line item's quantity once in
\* total, and the receivedDate the first call set is the one found after the
\* second.
ReceivedTwiceCreditsOnce ==
    \A c \in Clients :
        SecondReceivedCall(c) =>
            LET id == req[c].id
                before == req[c].pre
            IN /\ \A p \in ProductIds :
                      /\ before.products[p].stock = prev.stock[p] + QtyOf(pos[id].items, p)
                      /\ products[p].stock = before.products[p].stock
               /\ before.pos[id].receivedDate # NoDate
               /\ pos[id].receivedDate = before.pos[id].receivedDate
               /\ pos[id].status = "received"

\* C2 witness: the second of two such calls has ended on a purchase order
\* with two line items.
SecondReceivedCallEnded ==
    \E c \in Clients : SecondReceivedCall(c) /\ Len(pos[req[c].id].items) = 2

\* C3: no line item of a purchase order has its credit written to stock more
\* than once, whatever the interleaving of 'received' status updates.
CreditedAtMostOnce ==
    \A id \in DOMAIN poCredits : \A k \in DOMAIN poCredits[id] : poCredits[id][k] <= 1

\* a cancel has succeeded on the order the request before it created
CancelAfterCreate(c) ==
    /\ Ended(c, "CancelOrder") /\ req[c].resp = "Cancelled"
    /\ prev.op = "CreateOrder" /\ prev.resp = "Created" /\ prev.id = req[c].id

\* C4: when an order is created and then cancelled by its owner or an admin,
\* with nothing served in between, every product's stock after the cancel is
\* its stock before the create.
CancelRestoresStock ==
    \A c \in Clients :
        CancelAfterCreate(c) => \A p \in ProductIds : products[p].stock = prev.stock[p]

\* C4 witness: such a cancel has ended on an order naming one product in two
\* line items.
CancelAfterCreateEnded ==
    \E c \in Clients :
        /\ CancelAfterCreate(c)
        /\ LET items == orders[req[c].id].items
           IN Len(items) = 2 /\ items[1].product = items[2].product

\* an order creation has ended on a missing product or on insufficient stock
FailedCreate(c) ==
    /\ Ended(c, "CreateOrder")
    /\ req[c].resp \in {"ProductNotFound", "InsufficientStock"}

\* C5: an order creation that fails with ProductNotFound or InsufficientStock
\* on an item after the first leaves every product's stock as it was before
\* the request and persists no order.
NoPartialDebit ==
    \A c \in Clients :
        (FailedCreate(c) /\ Len(req[c].items) > 1) =>
            /\ \A p \in ProductIds : products[p].stock = req[c].pre.products[p].stock
            /\ orders = req[c].pre.orders

\* C6: whenever no request is in flight, every product's stock is its initial
\* stock less the quantities of the orders not cancelled plus the quantities
\* of the purchase orders received.
LedgerExact == Quiescent => \A p \in ProductIds : products[p].stock = Ledger(p)

\* a cancel by a user who is neither an admin nor the order's owner has ended
ForeignCancel(c) ==
    /\ Ended(c, "CancelOrder")
    /\ req[c].id \in DOMAIN req[c].pre.orders
    /\ req[c].actor.role # "admin"
    /\ req[c].pre.orders[req[c].id].user # req[c].actor.id

\* C7: a cancel by a user who is neither an admin nor the order's owner ends
\* with Forbidden whatever the order's status, and leaves the orders and the
\* products as they were.
ForeignCancelForbidden ==
    \A c \in Clients :
        ForeignCancel(c) =>
            /\ req[c].resp = "Forbidden"
            /\ orders = req[c].pre.orders
            /\ products = req[c].pre.products

\* C7 witness: such a cancel has ended on an order that is no longer pending
\* or processing.
ForeignCancelEnded ==
    \E c \in Clients :
        /\ ForeignCancel(c)
        /\ orders[req[c].id].status \in {"shipped", "delivered", "cancelled"}

\* a cancel by the order's owner or an admin has ended
OwnCancel(c) ==
    /\ Ended(c, "CancelOrder")
    /\ req[c].id \in DOMAIN req[c].pre.orders
    /\ \/ req[c].actor.role = "admin"
       \/ req[c].pre.orders[req[c].id].user = req[c].actor.id

\* C8: a cancel by the owner or an admin on a shipped, delivered or cancelled
\* order ends with InvalidState and leaves the orders and the products as
\* they were; a cancel succeeds only on a pending or processing order.
CancelOnlyWhenOpen ==
    \A c \in Clients :
        /\ OwnCancel(c) =>
              LET was == req[c].pre.orders[req[c].id].status
              IN IF was \in {"pending", "processing"}
                 THEN req[c].resp = "Cancelled"
                 ELSE /\ req[c].resp = "InvalidState"
                      /\ orders = req[c].pre.orders
                      /\ products = req[c].pre.products
        /\ (Ended(c, "CancelOrder") /\ req[c].resp = "Cancelled") =>
              /\ req[c].id \in DOMAIN req[c].pre.orders
              /\ req[c].pre.orders[req[c].id].status \in {"pending", "processing"}

\* C8 witness: the owner's cancel of an order already cancelled has ended.
ClosedCancelEnded ==
    \E c \in Clients :
        /\ OwnCancel(c)
        /\ req[c].actor.role = "user"
        /\ req[c].pre.orders[req[c].id].status = "cancelled"

\* an update or a delete has ended on a purchase order that was received
OnReceived(c) ==
    /\ req[c].pc = "done"
    /\ req[c].op \in {"UpdatePO", "DeletePO"}
    /\ req[c].id \in DOMAIN req[c].pre.pos
    /\ req[c].pre.pos[req[c].id].exists
    /\ req[c].pre.pos[req[c].id].status = "received"

\* C9: an update or a delete of a purchase order whose status is received
\* ends with InvalidState and leaves the purchase orders and the products as
\* they were.
ReceivedIsFrozen ==
    \A c \in Clients :
        OnReceived(c) =>
            /\ req[c].resp = "InvalidState"
            /\ pos = req[c].pre.pos
            /\ products = req[c].pre.products

\* C9 witness: an update that would change the status of a received purchase
\* order has ended.
UpdateOnReceivedEnded ==
    \E c \in Clients :
        /\ OnReceived(c)
        /\ req[c].op = "UpdatePO"
        /\ "status" \in req[c].body.fields
        /\ req[c].body.status = "pending"

\* C10: an order creation with an item whose quantity exceeds the stock the
\* product had when the request arrived ends with InsufficientStock, persists
\* no order and leaves that product's stock as it was.
InsufficientLeavesStock ==
    \A c \in Clients :
        Ended(c, "CreateOrder") =>
            \A k \in DOMAIN req[c].items :
                LET item == req[c].items[k]
                IN (item.product \in ProductIds
                    /\ item.quantity > req[c].pre.products[item.product].stock) =>
                       /\ req[c].resp = "InsufficientStock"
                       /\ orders = req[c].pre.orders
                       /\ products[item.product].stock
                              = req[c].pre.products[item.product].stock

RECURSIVE Amount(_, _)
\* sum of price * quantity over request items, at the prices `price` gives
Amount(items, price) ==
    IF items = <<>> THEN 0
    ELSE price[Head(items).product] * Head(items).quantity + Amount(Tail(items), price)

\* an order creation has ended with the order persisted
CreatedOrder(c) == Ended(c, "CreateOrder") /\ req[c].resp = "Created"

\* C11: an order creation served alone that succeeds lowers every product's
\* stock by the summed quantity of the line items naming it, appends one
\* order with status pending, and sets its totalAmount to the sum of catalog
\* price * quantity, whatever price the request items carry.
CreateDebitsAndTotals ==
    \A c \in Clients :
        CreatedOrder(c) =>
            LET r == req[c]
                catalog == [p \in ProductIds |-> r.pre.products[p].price]
            IN /\ \A p \in ProductIds :
                      products[p].stock = r.pre.products[p].stock - QtyOf(r.items, p)
               /\ Len(orders) = Len(r.pre.orders) + 1
               /\ SubSeq(orders, 1, Len(r.pre.orders)) = r.pre.orders
               /\ r.id = Len(orders)
               /\ orders[r.id].status = "pending"
               /\ orders[r.id].totalAmount = Amount(r.items, catalog)
               /\ \A k \in DOMAIN r.items :
                      orders[r.id].items[k].price = catalog[r.items[k].product]

\* C11 witness: such a creation has ended for two line items of one product,
\* one of them sent with a price that is not the catalog price.
PricedOrderCreated ==
    \E c \in Clients :
        /\ CreatedOrder(c)
        /\ Len(req[c].items) = 2
        /\ req[c].items[1].product = req[c].items[2].product
        /\ req[c].items[1].price = 7

\* C12: a purchase-order creation keeps every unit price the request
\* supplies, 0 included, takes the catalog price only where none is supplied,
\* and totals unit price * quantity.
SuppliedUnitPriceKept ==
    \A c \in Clients :
        (Ended(c, "CreatePurchaseOrder") /\ req[c].resp = "Created") =>
            LET r == req[c]
                po == pos[r.id]
                unit == [k \in DOMAIN r.items |->
                            IF r.items[k].unitPrice # NoPrice THEN r.items[k].unitPrice
                            ELSE r.pre.products[r.items[k].product].price]
                RECURSIVE Total(_)
                Total(k) == IF k = 0 THEN 0
                            ELSE unit[k] * r.items[k].quantity + Total(k - 1)
            IN /\ \A k \in DOMAIN r.items : po.items[k].unitPrice = unit[k]
               /\ po.totalAmount = Total(Len(r.items))

\* the store of PlacedInit is one a single order creation leaves behind
PlacedInitReached ==
    /\ Quiescent
    /\ orders = <<PlacedOrder>>
    /\ products = [InitialProducts EXCEPT !["p1"].stock = Debit(@, 1)]
    /\ orderHist = <<[credits |-> <<0>>, cancelled |-> FALSE]>>

\* a status update or a cancellation is in flight on an order whose persisted
\* status has been cancelled at some earlier time
AfterCancelled(c) ==
    /\ req[c].pc # "idle"
    /\ req[c].op \in {"UpdateOrderStatus", "CancelOrder"}
    /\ req[c].id \in DOMAIN orderHist
    /\ orderHist[req[c].id].cancelled

\* C13: once the status of an order has become cancelled, no step of a later
\* status update or cancellation of it changes the stock of any product; so
\* no line item of an order is credited back more than once.
NoStockMoveAfterCancelled ==
    [][(\E c \in Clients : AfterCancelled(c)) =>
           /\ products' = products
           /\ \A o \in DOMAIN orderHist : \A k \in DOMAIN orderHist[o].credits :
                  orderHist'[o].credits[k] <= 1]_vars

\* C14: however two overlapping cancellations of one open order interleave,
\* no line item of the order is credited back to stock more than once.
CancelCreditsOnce ==
    \A o \in DOMAIN orderHist : \A k \in DOMAIN orderHist[o].credits :
        orderHist[o].credits[k] <= 1

\* C15: whenever the persisted status of a purchase order is received, each
\* of its line items has been credited to stock exactly once.
ReceivedMeansCredited ==
    \A id \in DOMAIN pos :
        (pos[id].exists /\ pos[id].status = "received") =>
            \A k \in DOMAIN pos[id].items : poCredits[id][k] = 1

\* C16: the status of an order becomes cancelled only from pending or
\* processing and only when every line item has been credited back; so every
\* cancelled order has had its quantities credited back.
CancelledOnlyWithCredit ==
    [][\A o \in DOMAIN orders :
           (orders[o].status # "cancelled" /\ orders'[o].status = "cancelled") =>
               /\ orders[o].status \in {"pending", "processing"}
               /\ \A k \in DOMAIN orders[o].items : orderHist'[o].credits[k] >= 1]_vars

\* C17: once the status of a purchase order is received or cancelled, no step
\* changes it to another value.
POTerminalStatus ==
    [][\A id \in DOMAIN pos :
           (pos[id].exists /\ pos[id].status \in {"received", "cancelled"}) =>
               pos'[id].status = pos[id].status]_vars

\* the step is the save of a status update to received of purchase order id
ReceivedSaveStep(id) ==
    \E c \in Clients :
        /\ req[c].op = "UpdatePOStatus" /\ req[c].id = id
        /\ req[c].status = "received"
        /\ req[c].pc = "ps_save" /\ req'[c].pc = "done"

\* C18: a receivedDate that is set is never changed or cleared, and a
\* receivedDate becomes set only by the save of a status update to received.
ReceivedDateSetOnce ==
    [][\A id \in DOMAIN pos :
           pos[id].exists =>
               /\ pos[id].receivedDate # NoDate =>
                      pos'[id].receivedDate = pos[id].receivedDate
               /\ (pos[id].receivedDate = NoDate /\ pos'[id].receivedDate # NoDate) =>
                      ReceivedSaveStep(id)]_vars

\* a cancellation has ended in error at the credit step of one of its items
FailedCredit(c) ==
    /\ Ended(c, "CancelOrder")
    /\ req[c].resp = "ServerError"
    /\ req[c].items # <<>>
    /\ req[c].i <= Len(req[c].items)

\* C19: a cancellation writes status cancelled only when every line item has
\* been credited; one whose credit step fails ends in error with the order's
\* status as it was, pending or processing.
CancelledAfterAllCredits ==
    /\ \A o \in DOMAIN orders :
           orders[o].status = "cancelled" =>
               \A k \in DOMAIN orders[o].items : orderHist[o].credits[k] >= 1
    /\ \A c \in Clients :
           FailedCredit(c) =>
               /\ orders[req[c].id].status = req[c].pre.orders[req[c].id].status
               /\ orders[req[c].id].status \in {"pending", "processing"}

\* C19 witness: a cancellation has ended in error at its second line item,
\* the first one credited.
SecondCreditFailed ==
    \E c \in Clients :
        /\ FailedCredit(c)
        /\ req[c].i = 2
        /\ orderHist[req[c].id].credits = <<1, 0>>

\* C20: no step changes the items or the totalAmount of a persisted order:
\* not a status update, not a cancellation, not a product update or deletion.
OrderItemsFrozen ==
    [][\A o \in DOMAIN orders :
           /\ orders'[o].items = orders[o].items
           /\ orders'[o].totalAmount = orders[o].totalAmount]_vars

\* the catalog no longer holds line item k of order o as the order holds it
Stale(o, k) ==
    LET item == orders[o].items[k]
    IN \/ item.product \notin DOMAIN products
       \/ products[item.product].name # item.productName
       \/ products[item.product].price # item.price

\* C20 witness: a product update has ended on a product that a persisted
\* order holds, and the order's snapshot differs from the catalog.
OrderedProductUpdated ==
    \E c \in Clients :
        /\ Ended(c, "UpdateProduct") /\ req[c].resp = "OK"
        /\ \E o \in DOMAIN orders : \E k \in DOMAIN orders[o].items :
               orders[o].items[k].product = req[c].product /\ Stale(o, k)

====
